---- MODULE Spec2Model ----
(***************************************************************************)
(* The chunking / extraction / recovery pipeline of clearpolicy-backend    *)
(* (api/process-terms.js and its earlier revisions).                       *)
(*                                                                         *)
(* Text is a sequence of characters; a character is a one-element string,  *)
(* except for the characters that have no printable form, which are named. *)
(***************************************************************************)
EXTENDS Integers, Sequences, FiniteSets, TLC

(***************************************************************************)
(* Characters                                                              *)
(***************************************************************************)
DQ == "\""          \* U+0022 plain double quote
SQ == "'"           \* U+0027 plain single quote
LDQUO == "ldquo"    \* U+201C left smart double quote
RDQUO == "rdquo"    \* U+201D right smart double quote
LSQUO == "lsquo"    \* U+2018 left smart single quote
RSQUO == "rsquo"    \* U+2019 right smart single quote
LF == "LF"          \* U+000A line feed: JSON whitespace and a control character
BEL == "BEL"        \* U+0007 a control character that is not whitespace
SP == " "           \* U+0020 space
TICK == "tick"      \* U+0060 backtick

\* [\u0000-\u001F] of fixJSON, and the characters JSON forbids inside a string
ControlChars == {LF, BEL}
\* the insignificant whitespace of JSON.parse
JSONWhitespace == {SP, LF}
\* what String.prototype.trim removes
TrimWhitespace == {SP, LF}
Digits == {"0", "1", "2", "3", "4", "5", "6", "7", "8", "9"}

Min(a, b) == IF a <= b THEN a ELSE b
Max(a, b) == IF a >= b THEN a ELSE b

(***************************************************************************)
(* JSON.parse, for texts without backslash escapes.  A parsed value is a   *)
(* record tagged by its type: an array holds the sequence of its elements, *)
(* an object the function from its keys to their values (the last of two   *)
(* equal keys wins), a string its characters, a number its lexeme.         *)
(***************************************************************************)
Fail == [ok |-> FALSE, val |-> <<>>, pos |-> 0]
Ok(v, p) == [ok |-> TRUE, val |-> v, pos |-> p]

JArr(elems) == [t |-> "arr", v |-> elems]
JObj(members) == [t |-> "obj", v |-> members]
JStr(chars) == [t |-> "str", v |-> chars]
JNum(lexeme) == [t |-> "num", v |-> lexeme]
JLit(name) == [t |-> "lit", v |-> name]

RECURSIVE SkipWs(_, _)
SkipWs(s, p) ==
  IF p <= Len(s) /\ s[p] \in JSONWhitespace THEN SkipWs(s, p + 1) ELSE p

\* the index of the quote closing the string whose body starts at p, 0 if none
RECURSIVE StringEnd(_, _)
StringEnd(s, p) ==
  IF p > Len(s) THEN 0
  ELSE IF s[p] = DQ THEN p
  ELSE IF s[p] \in ControlChars \/ s[p] = "\\" THEN 0
  ELSE StringEnd(s, p + 1)

StringValue(s, p, q) ==
  IF q = 0 THEN Fail ELSE Ok(JStr(SubSeq(s, p + 1, q - 1)), q + 1)

\* the string whose opening quote is at p
ParseString(s, p) == StringValue(s, p, StringEnd(s, p + 1))

RECURSIVE SkipDigits(_, _)
SkipDigits(s, p) ==
  IF p <= Len(s) /\ s[p] \in Digits THEN SkipDigits(s, p + 1) ELSE p

\* q if the run p..q-1 is not empty, else 0
NonEmptyRun(p, q) == IF q = p THEN 0 ELSE q
DigitsEnd(s, p) == NonEmptyRun(p, SkipDigits(s, p))

\* The parts of number = "-"? int frac? exp?: each gives the index after the
\* part that starts at p, 0 when the text is no number (p = 0 passes that on)
IntEnd(s, p) ==
  IF p > Len(s) \/ s[p] \notin Digits THEN 0
  ELSE IF s[p] = "0" THEN p + 1
  ELSE SkipDigits(s, p)

FracEnd(s, p) ==
  IF p = 0 THEN 0
  ELSE IF p <= Len(s) /\ s[p] = "." THEN DigitsEnd(s, p + 1)
  ELSE p

ExpDigits(s, p) ==
  IF p + 1 <= Len(s) /\ s[p + 1] \in {"+", "-"} THEN p + 2 ELSE p + 1

ExpEnd(s, p) ==
  IF p = 0 THEN 0
  ELSE IF p <= Len(s) /\ s[p] \in {"e", "E"} THEN DigitsEnd(s, ExpDigits(s, p))
  ELSE p

NumberValue(s, p, q) == IF q = 0 THEN Fail ELSE Ok(JNum(SubSeq(s, p, q - 1)), q)

ParseNumber(s, p) ==
  NumberValue(s, p, ExpEnd(s, FracEnd(s, IntEnd(s, IF s[p] = "-" THEN p + 1 ELSE p))))

Literals == {<<"t", "r", "u", "e">>, <<"f", "a", "l", "s", "e">>,
             <<"n", "u", "l", "l">>}

LiteralAt(s, p, w) ==
  p + Len(w) - 1 <= Len(s) /\ SubSeq(s, p, p + Len(w) - 1) = w

LiteralValue(w, p) == Ok(JLit(w), p + Len(w))

ParseLiteral(s, p) ==
  IF \E w \in Literals : LiteralAt(s, p, w)
  THEN LiteralValue(CHOOSE w \in Literals : LiteralAt(s, p, w), p)
  ELSE Fail

RECURSIVE ParseValue(_, _), ParseElements(_, _, _), ParseMembers(_, _, _)

\* the value that starts at p, a character that is no whitespace
ValueAt(s, p) ==
  IF p > Len(s) THEN Fail
  ELSE IF s[p] = "["
       THEN (IF SkipWs(s, p + 1) <= Len(s) /\ s[SkipWs(s, p + 1)] = "]"
             THEN Ok(JArr(<<>>), SkipWs(s, p + 1) + 1)
             ELSE ParseElements(s, p + 1, <<>>))
  ELSE IF s[p] = "{"
       THEN (IF SkipWs(s, p + 1) <= Len(s) /\ s[SkipWs(s, p + 1)] = "}"
             THEN Ok(JObj(<<>>), SkipWs(s, p + 1) + 1)
             ELSE ParseMembers(s, p + 1, <<>>))
  ELSE IF s[p] = DQ THEN ParseString(s, p)
  ELSE IF s[p] \in Digits \cup {"-"} THEN ParseNumber(s, p)
  ELSE ParseLiteral(s, p)

ParseValue(s, p) == ValueAt(s, SkipWs(s, p))

\* after element r of an array: q is the next character that is no whitespace
ElementsAfter(s, r, q, acc) ==
  IF q > Len(s) THEN Fail
  ELSE IF s[q] = "," THEN ParseElements(s, q + 1, Append(acc, r.val))
  ELSE IF s[q] = "]" THEN Ok(JArr(Append(acc, r.val)), q + 1)
  ELSE Fail

ElementsNext(s, r, acc) ==
  IF ~r.ok THEN Fail ELSE ElementsAfter(s, r, SkipWs(s, r.pos), acc)

\* the elements of an array after "[" or ",", up to and including "]"
ParseElements(s, p, acc) == ElementsNext(s, ParseValue(s, p), acc)

\* after the member k: r of an object
MembersAfter(s, m, q) ==
  IF q > Len(s) THEN Fail
  ELSE IF s[q] = "," THEN ParseMembers(s, q + 1, m)
  ELSE IF s[q] = "}" THEN Ok(JObj(m), q + 1)
  ELSE Fail

MemberValue(s, k, r, acc) ==
  IF ~r.ok THEN Fail
  ELSE MembersAfter(s, (k.val.v :> r.val) @@ acc, SkipWs(s, r.pos))

MemberColon(s, k, c, acc) ==
  IF c > Len(s) \/ s[c] # ":" THEN Fail
  ELSE MemberValue(s, k, ParseValue(s, c + 1), acc)

MemberKey(s, k, acc) ==
  IF ~k.ok THEN Fail ELSE MemberColon(s, k, SkipWs(s, k.pos), acc)

MemberAt(s, p, acc) ==
  IF p > Len(s) \/ s[p] # DQ THEN Fail ELSE MemberKey(s, ParseString(s, p), acc)

\* the members of an object after "{" or ",", up to and including "}"
ParseMembers(s, p, acc) == MemberAt(s, SkipWs(s, p), acc)

WholeText(s, r) ==
  IF r.ok /\ SkipWs(s, r.pos) = Len(s) + 1 THEN Ok(r.val, r.pos) ELSE Fail

\* JSON.parse(text): ok and the value, or not ok where JSON.parse throws
JSONParse(s) == WholeText(s, ParseValue(s, 1))

(***************************************************************************)
(* String operations of the JavaScript runtime                             *)
(***************************************************************************)
\* String.prototype.trim
RECURSIVE TrimLeft(_)
TrimLeft(s) ==
  IF s # <<>> /\ Head(s) \in TrimWhitespace THEN TrimLeft(Tail(s)) ELSE s

RECURSIVE TrimRight(_)
TrimRight(s) ==
  IF s # <<>> /\ s[Len(s)] \in TrimWhitespace
  THEN TrimRight(SubSeq(s, 1, Len(s) - 1)) ELSE s

Trim(s) == TrimRight(TrimLeft(s))

\* String.prototype.slice(start, end) for 0 <= start <= end: offsets are
\* 0-based, end is exclusive, and both are clamped to the length
Slice(s, start, end) == SubSeq(s, Min(start, Len(s)) + 1, Min(end, Len(s)))

\* Math.ceil(a / b) for a >= 0, b > 0
Ceil(a, b) == (a + b - 1) \div b

Positions(s, c) == {k \in 1..Len(s) : s[k] = c}
SetMin(S) == CHOOSE x \in S : \A y \in S : x <= y
SetMax(S) == CHOOSE x \in S : \A y \in S : x >= y

\* str.replace(/[set]/g, by): every character of the set replaced
ReplaceAll(s, set, by) == [k \in 1..Len(s) |-> IF s[k] \in set THEN by ELSE s[k]]

\* str.replace(/[set]+/g, ""): every character of the set removed
RemoveAll(s, set) == SelectSeq(s, LAMBDA c : c \notin set)

(***************************************************************************)
(* Recovery of the structured result: processChunk's extraction and        *)
(* fixJSON.  NoMatch stands for the null of String.prototype.match.        *)
(***************************************************************************)
NoMatch == [found |-> FALSE, text |-> <<>>]
Match(text) == [found |-> TRUE, text |-> text]

\* responseContent.match(/\[.*\]/s): greedy and dot-all, so from the first "["
\* to the last "]" after it
MatchFrom(s, a, closers) ==
  IF closers = {} THEN NoMatch ELSE Match(SubSeq(s, a, SetMax(closers)))

ClosersAfter(s, a) == {k \in Positions(s, "]") : k > a}

MatchFirst(s, a) == MatchFrom(s, a, ClosersAfter(s, a))

\* the pattern with the lazy .*? : from the first "[" to the first "]" after it
MatchArrayLazy(s) ==
  IF Positions(s, "[") = {} \/ ClosersAfter(s, SetMin(Positions(s, "["))) = {}
  THEN NoMatch
  ELSE Match(SubSeq(s, SetMin(Positions(s, "[")),
                    SetMin(ClosersAfter(s, SetMin(Positions(s, "["))))))

\* the pattern with .+ for .* : brackets with nothing between do not match
OpenersBeforeText(s) ==
  {a \in Positions(s, "[") : \E k \in Positions(s, "]") : k > a + 1}
MatchArrayNonEmpty(s) ==
  IF OpenersBeforeText(s) = {} THEN NoMatch
  ELSE MatchFirst(s, SetMin(OpenersBeforeText(s)))

MatchArray(s) ==
  IF Positions(s, "[") = {} THEN NoMatch
  ELSE MatchFirst(s, SetMin(Positions(s, "[")))

\* str.replace(/[set]/, by): without the g flag, only the first match
ReplaceFirst(s, set, by) ==
  IF \E k \in 1..Len(s) : s[k] \in set
  THEN [s EXCEPT ![SetMin({k \in 1..Len(s) : s[k] \in set})] = by]
  ELSE s

\* the two replace calls of fixJSON without their g flags
NormalizeQuotesFirst(s) ==
  ReplaceFirst(ReplaceFirst(s, {LDQUO, RDQUO}, DQ), {LSQUO, RSQUO}, SQ)

\* .replace(/[\u201C\u201D]/g, '"').replace(/[\u2018\u2019]/g, "'")
NormalizeQuotes(s) == ReplaceAll(ReplaceAll(s, {LDQUO, RDQUO}, DQ), {LSQUO, RSQUO}, SQ)

\* .replace(/[\u0000-\u001F]+/g, "")
StripControl(s) == RemoveAll(s, ControlChars)

\* The text fixJSON hands to JSON.parse; NoMatch where match(...)[0] throws
RepairMatched(m) ==
  IF ~m.found THEN NoMatch ELSE Match(StripControl(NormalizeQuotes(m.text)))

RepairChain(s) == RepairMatched(MatchArray(s))

\* fixJSON(jsonString): the parsed value, or not ok for its null
ParseCleaned(cleanedString) ==
  IF ~cleanedString.found THEN Fail ELSE JSONParse(cleanedString.text)

fixJSON(str) == ParseCleaned(RepairChain(str))

\* The truthiness of a parsed JSON value (if (fixedJSON))
Truthy(val) ==
  CASE val.t \in {"arr", "obj"} -> TRUE
    [] val.t = "str" -> val.v # <<>>
    [] val.t = "num" -> \E k \in 1..Len(val.v) : val.v[k] \in Digits \ {"0"}
    [] val.t = "lit" -> val.v = <<"t", "r", "u", "e">>

(***************************************************************************)
(* Bounds of the model                                                     *)
(***************************************************************************)
MaxDocLen == 9        \* longest document
MaxTokens == 2        \* largest maxInputTokens
MaxChunkSize == 3     \* largest chunkSize of the fixed-size revision
MaxChunks == 3        \* most chunks of one run
MaxTokenChars == 2    \* most characters the tokenizer puts in one token

(***************************************************************************)
(* Program constants                                                       *)
(***************************************************************************)
CharsPerToken == 4
MaxOutputTokens == 16384
MaxOutputTokensGpt35 == 1500
PromptReserve == 2000
\* the two messages around a chunk, at four characters to the token
PromptTokens == 454

(***************************************************************************)
(* The revisions of api/process-terms.js                                   *)
(*   repair    single-call shortcut, processChunk with fixJSON             *)
(*   estimate  chunk count from the estimated token count, raw text kept   *)
(*   fixed     fixed chunkSize, raw text kept                              *)
(*   tokenizer chunks of tokens, JSON parsed per chunk, failures skipped   *)
(*   tagged    as estimate, each entry tagged with its chunk number        *)
(*   strict    as repair, processChunk without fixJSON                     *)
(*   labelled  as repair, the response read as a numbered list of labels   *)
(***************************************************************************)
Variants ==
  {"repair", "estimate", "fixed", "tokenizer", "tagged", "strict", "labelled"}

\* the revisions with the single-call shortcut and processChunk
Shortcut == {"repair", "strict", "labelled"}

VARIABLES
  variant,          \* the revision that serves the request
  termsContent,     \* req.body.termsContent: [defined, text]
  contextWindow,    \* TOKEN_LIMITS[model].contextWindow
  chunkSize,        \* chunkSize of the fixed-size revision
  tokenChars,       \* characters per token of the tokenizer
  pc,               \* where the request is
  termsText,        \* summarizePolicy's argument
  split,            \* whether summarizePolicy runs its chunk loop
  tokens,           \* tokenizer.encode(termsText)
  numChunks,
  i,                \* loop index
  concernsList,     \* the output accumulator
  responseContent,  \* the trimmed text of the last completion
  inFlight,         \* external calls awaiting their response
  segments,         \* every chunk sliced so far: [index, start, end, text]
  calls,            \* every external call made:
                    \* [segment, text, chunkNumber, heading]
  batches,          \* what each processed segment appended:
                    \* [segment, concerns, raw, parses]
  failures,         \* every failed segment: [segment, kind, raw, parses]
  error,            \* the error that reached the handler's catch
  status,           \* HTTP status of the response, 0 before it is sent
  body,             \* JSON body of the response
  method,           \* req.method
  apiKey,           \* whether process.env.OPENAI_API_KEY is set
  keyCheck,         \* what the revision does about a missing key
  jsonString,       \* the argument of fixJSON
  fixStep,          \* how often the repair chain has been applied to it
  cleaned,          \* cleanedString: the repair chain applied once
  cleanedAgain,     \* the repair chain applied to its own output
  direct,           \* JSON.parse of the argument as it is
  repaired          \* JSON.parse of cleanedString

vars == <<variant, termsContent, contextWindow, chunkSize, tokenChars, pc,
          termsText, split, tokens, numChunks, i, concernsList,
          responseContent, inFlight, segments, calls, batches, failures,
          error, status, body, method, apiKey, keyCheck, jsonString, fixStep,
          cleaned, cleanedAgain, direct, repaired>>

envVars == <<method, apiKey, keyCheck>>

fixVars == <<jsonString, fixStep, cleaned, cleanedAgain, direct, repaired>>

pipelineVars == <<variant, termsContent, contextWindow, chunkSize, tokenChars,
                  pc, termsText, split, tokens, numChunks, i, concernsList,
                  responseContent, inFlight, segments, calls, batches,
                  failures, error, status, body, method, apiKey, keyCheck>>

(***************************************************************************)
(* Documents                                                               *)
(***************************************************************************)
DocAlphabet == <<"a", "b", "c", "d", "e">>
DocChar(k) == DocAlphabet[((k - 1) % Len(DocAlphabet)) + 1]
Doc(n) == [k \in 1..n |-> DocChar(k)]

Undefined == [defined |-> FALSE, text |-> <<>>]
Defined(text) == [defined |-> TRUE, text |-> text]

BlankTexts == {<<>>, <<SP>>, <<LF, SP>>}
RequestBodies ==
  {Undefined} \cup {Defined(t) : t \in BlankTexts}
              \cup {Defined(Doc(n)) : n \in 1..MaxDocLen}

(***************************************************************************)
(* Completions the external model may return                               *)
(***************************************************************************)
Section == <<"s", "e", "c", "t", "i", "o", "n">>
Quote == <<"q", "u", "o", "t", "e">>
Concern == <<"c", "o", "n", "c", "e", "r", "n">>

Quoted(open, close, w) == <<open>> \o w \o <<close>>
Member(open, close, key, value) ==
  Quoted(open, close, key) \o <<":">> \o Quoted(open, close, value)
ConcernObject(open, close, sec, quo, con) ==
  <<"{">> \o Member(open, close, Section, sec) \o <<",">>
          \o Member(open, close, Quote, quo) \o <<",">>
          \o Member(open, close, Concern, con) \o <<"}">>

RespEmptyArray == <<"[", "]">>
RespOne == <<"[">> \o ConcernObject(DQ, DQ, <<"1">>, <<"a">>, <<"x">>) \o <<"]">>
RespTwo ==
  <<"[">> \o ConcernObject(DQ, DQ, <<"2">>, <<"b">>, <<"y">>) \o <<",", LF>>
          \o ConcernObject(DQ, DQ, <<"3">>, <<"c">>, <<"z">>) \o <<"]", LF>>
RespProse == <<"n", "o", "n", "e", SP, "f", "o", "u", "n", "d">>
RespSmart ==
  <<"[">> \o ConcernObject(LDQUO, RDQUO, <<"4">>, <<"d">>, <<"w">>) \o <<"]">>
\* the array of one object with the single member section: 4.2, written with
\* smart quotes, a space after the colon and a comma before the closing brace
RespSmartTrailing ==
  <<"[", "{">> \o Quoted(LDQUO, RDQUO, Section) \o <<":", SP>>
               \o Quoted(LDQUO, RDQUO, <<"4", ".", "2">>) \o <<",", "}", "]">>
RespBroken == <<"[", "{", "]">>
RespFenced ==
  <<TICK, TICK, TICK, "j", "s", "o", "n", LF>>
    \o <<"[">> \o ConcernObject(DQ, DQ, <<"5">>, <<"e">>, <<"v">>) \o <<"]">>
    \o <<LF, TICK, TICK, TICK>>

\* a well-formed record whose quote holds smart quotes
RespQuoteInValue ==
  <<"[">> \o ConcernObject(DQ, DQ, <<"6">>, <<LDQUO, "f", RDQUO>>, <<"u">>)
          \o <<"]">>
\* an array of a record with one field only and a number
RespMissingFields ==
  <<"[", "{">> \o Member(DQ, DQ, Section, <<"7">>) \o <<"}", ",", "8", "]">>
\* the numbered list the labelled revision asks for: one full block
Labelled(label, value) == label \o <<":", SP>> \o value
RespLabelled ==
  <<"1", ".", SP>> \o Labelled(<<"S", "e", "c", "t", "i", "o", "n">>, <<"9">>)
    \o <<LF>> \o Labelled(<<"Q", "u", "o", "t", "e">>, <<"g">>)
    \o <<LF>> \o Labelled(<<"C", "o", "n", "c", "e", "r", "n">>, <<"t">>)
\* two blocks, the second with its section only
RespLabelledPartial ==
  RespLabelled \o <<LF, "2", ".", SP>>
    \o Labelled(<<"S", "e", "c", "t", "i", "o", "n">>, <<"1", "0">>)

\* two arrays in a sentence
RespTwoArrays ==
  <<"s", "e", "e", SP, "[", "1", "]", SP, "o", "r", SP, "[", "2", "]", ".">>

\* a record on its own, not in an array
RespObject == ConcernObject(DQ, DQ, <<"0">>, <<"h">>, <<"s">>)

Responses == {RespEmptyArray, RespOne, RespTwo, RespProse, RespSmart,
              RespSmartTrailing, RespBroken, RespFenced, RespQuoteInValue,
              RespMissingFields, RespLabelled, RespLabelledPartial,
              RespTwoArrays, RespObject}

(***************************************************************************)
(* Errors.  A message is the text of the Error, character by character.    *)
(***************************************************************************)
\* the messages the source writes as literals
ExtractFailed ==
  <<"F", "a", "i", "l", "e", "d", " ", "t", "o", " ", "e", "x", "t", "r",
    "a", "c", "t", " ", "J", "S", "O", "N", " ", "a", "r", "r", "a", "y",
    " ", "f", "r", "o", "m", " ", "O", "p", "e", "n", "A", "I", " ", "r",
    "e", "s", "p", "o", "n", "s", "e", ".">>

ParseAndFixFailed ==
  <<"F", "a", "i", "l", "e", "d", " ", "t", "o", " ", "p", "a", "r", "s",
    "e", " ", "a", "n", "d", " ", "f", "i", "x", " ", "J", "S", "O", "N",
    " ", "f", "r", "o", "m", " ", "O", "p", "e", "n", "A", "I", " ", "r",
    "e", "s", "p", "o", "n", "s", "e", ".">>

SummarizeFailed ==
  <<"F", "a", "i", "l", "e", "d", " ", "t", "o", " ", "s", "u", "m", "m",
    "a", "r", "i", "z", "e", " ", "t", "h", "e", " ", "T", "e", "r", "m",
    "s", " ", "o", "f", " ", "U", "s", "e">>

InternalServerError ==
  <<"I", "n", "t", "e", "r", "n", "a", "l", " ", "S", "e", "r", "v", "e",
    "r", " ", "E", "r", "r", "o", "r">>

NoContentProvided ==
  <<"N", "o", " ", "T", "e", "r", "m", "s", " ", "o", "f", " ", "U", "s",
    "e", " ", "c", "o", "n", "t", "e", "n", "t", " ", "p", "r", "o", "v",
    "i", "d", "e", "d">>

MethodNotAllowed ==
  <<"M", "e", "t", "h", "o", "d", " ", "n", "o", "t", " ", "a", "l", "l",
    "o", "w", "e", "d">>

KeyNotSet ==
  <<"O", "P", "E", "N", "A", "I", "_", "A", "P", "I", "_", "K", "E", "Y",
    " ", "i", "s", " ", "n", "o", "t", " ", "s", "e", "t", ".">>

ParseFailed ==
  <<"F", "a", "i", "l", "e", "d", " ", "t", "o", " ", "p", "a", "r", "s",
    "e", " ", "J", "S", "O", "N", " ", "f", "r", "o", "m", " ", "O", "p",
    "e", "n", "A", "I", " ", "r", "e", "s", "p", "o", "n", "s", "e", ".">>

\* a message of the client library for a call that failed
ConnectionError ==
  <<"C", "o", "n", "n", "e", "c", "t", "i", "o", "n", " ", "e", "r", "r",
    "o", "r", ".">>

NoError == [message |-> <<>>]
Error(message) == [message |-> message]

\* what openai.chat.completions.create can reject with: an error with a
\* message, or one without
ApiErrors == {Error(ConnectionError), Error(<<>>)}

\* the catch of summarizePolicy: a new Error with error.message, or with the
\* fallback text when that is empty
WrapError(err) ==
  IF err.message # <<>> THEN Error(err.message) ELSE Error(SummarizeFailed)

\* the catch of the handler: error.message, or the fallback text, as the body
ErrorBody(err) ==
  [error |-> IF err.message # <<>> THEN err.message ELSE InternalServerError]

(***************************************************************************)
(* The tokenizer of the tokenizer revision: a text is cut into tokens of   *)
(* tokenChars characters (the last one may be shorter); decoding joins     *)
(* the tokens again.                                                       *)
(***************************************************************************)
Encode(text) ==
  [j \in 1..Ceil(Len(text), tokenChars) |->
     SubSeq(text, (j - 1) * tokenChars + 1, Min(j * tokenChars, Len(text)))]

RECURSIVE Decode(_)
Decode(toks) == IF toks = <<>> THEN <<>> ELSE Head(toks) \o Decode(Tail(toks))

(***************************************************************************)
(* summarizePolicy: the budget, the chunk count and the chunk boundaries   *)
(***************************************************************************)
maxOutputTokens ==
  IF variant = "tagged" THEN MaxOutputTokensGpt35 ELSE MaxOutputTokens

maxInputTokens ==
  IF variant = "tokenizer"
  THEN contextWindow - maxOutputTokens - PromptReserve
  ELSE contextWindow - maxOutputTokens

maxInputChars == maxInputTokens * CharsPerToken

\* Math.floor in place of Math.ceil in charsToTokens
charsToTokensFloor(chars) == chars \div CharsPerToken

charsToTokens(chars) == Ceil(chars, CharsPerToken)

\* the slices taken with the token budget itself, the factor 4 left out
ChunkBudgetInTokens ==
  CASE variant \in Shortcut -> maxInputChars
    [] variant \in {"estimate", "tagged"} -> maxInputTokens
    [] variant = "fixed" -> chunkSize
    [] variant = "tokenizer" -> maxInputTokens

\* the length of one chunk, in characters (in tokens for the tokenizer revision)
ChunkBudget ==
  CASE variant \in Shortcut -> maxInputChars
    [] variant \in {"estimate", "tagged"} -> maxInputTokens * CharsPerToken
    [] variant = "fixed" -> chunkSize
    [] variant = "tokenizer" -> maxInputTokens

\* Math.floor in place of the Math.ceil of numChunks
NumChunksFloor(text) ==
  CASE variant \in Shortcut -> Len(text) \div maxInputChars
    [] variant \in {"estimate", "tagged"} ->
         charsToTokens(Len(text)) \div maxInputTokens
    [] variant = "fixed" -> Len(text) \div chunkSize
    [] variant = "tokenizer" -> Len(Encode(text)) \div maxInputTokens

\* Math.floor(...) + 1 in place of the Math.ceil of numChunks
NumChunksFloorPlusOne(text) == NumChunksFloor(text) + 1

\* numChunks
NumChunks(text) ==
  CASE variant \in Shortcut -> Ceil(Len(text), maxInputChars)
    [] variant \in {"estimate", "tagged"} ->
         Ceil(charsToTokens(Len(text)), maxInputTokens)
    [] variant = "fixed" -> Ceil(Len(text), chunkSize)
    [] variant = "tokenizer" -> Ceil(Len(Encode(text)), maxInputTokens)

\* start and end of chunk k (0-based), as the loop body computes them
ChunkStart(k) == k * ChunkBudget

\* the end of a chunk taken as its last offset, not the offset after it
ChunkEndInclusive(k) ==
  CASE variant \in Shortcut \cup {"fixed"} ->
         Min(ChunkStart(k) + ChunkBudget, Len(termsText)) - 1
    [] variant \in {"estimate", "tagged"} -> ChunkStart(k) + ChunkBudget - 1
    [] variant = "tokenizer" -> Min(ChunkStart(k) + ChunkBudget, Len(tokens))

ChunkEnd(k) ==
  CASE variant \in Shortcut \cup {"fixed"} ->
         Min(ChunkStart(k) + ChunkBudget, Len(termsText))
    [] variant \in {"estimate", "tagged"} -> ChunkStart(k) + ChunkBudget
    [] variant = "tokenizer" -> Min(ChunkStart(k) + ChunkBudget, Len(tokens))

\* chunk
ChunkText(k) ==
  IF variant = "tokenizer"
  THEN Decode(SubSeq(tokens, ChunkStart(k) + 1, ChunkEnd(k)))
  ELSE Slice(termsText, ChunkStart(k), ChunkEnd(k))

\* the loop index handed on as it is, not i + 1
ChunkNumberZeroBased(k) == IF variant \in Shortcut THEN k ELSE 0

\* chunkNumber handed to processChunk: i + 1 in the loop; 0 stands for the
\* null of the default and for the revisions without the parameter
ChunkNumber(k) == IF variant \in Shortcut THEN k + 1 ELSE 0

DigitChars == <<"0", "1", "2", "3", "4", "5", "6", "7", "8", "9">>

\* the decimal numeral of n
RECURSIVE Numeral(_)
Numeral(n) ==
  IF n < 10 THEN <<DigitChars[n + 1]>>
  ELSE Numeral(n \div 10) \o <<DigitChars[(n % 10) + 1]>>

ChunkWord == <<"C", "h", "u", "n", "k", SP>>
TermsOfUse == <<"T", "e", "r", "m", "s", SP, "o", "f", SP, "U", "s", "e">>

\* the line of the prompt above the text: chunkNumber ? Chunk n : Terms of Use
\* (no such line in the revisions without processChunk)
PromptHeading(chunkNumber) ==
  IF variant \notin Shortcut THEN <<>>
  ELSE IF chunkNumber # 0 THEN ChunkWord \o Numeral(chunkNumber)
  ELSE TermsOfUse

\* the tokenizer revision's count of the tokens of the two messages
MessageTokens(chunk) == PromptTokens + Len(Encode(chunk))

(***************************************************************************)
(* Recovery of one response.  An outcome tells whether the step threw,     *)
(* what it appended to the accumulator, and how many times it ran          *)
(* JSON.parse.                                                             *)
(***************************************************************************)
Returned(added, parses) ==
  [thrown |-> FALSE, kind |-> "ok", added |-> added, error |-> NoError,
   parses |-> parses]
Thrown(kind, err, parses) ==
  [thrown |-> TRUE, kind |-> kind, added |-> <<>>, error |-> err,
   parses |-> parses]
Dropped(kind, parses) ==
  [thrown |-> FALSE, kind |-> kind, added |-> <<>>, error |-> NoError,
   parses |-> parses]

\* what list.concat(value) appends: the elements of an array, or the value
ConcatArg(val) == IF val.t = "arr" THEN val.v ELSE <<val>>

\* a catch that repairs and parses once more when the repaired text did not
\* parse
FixTwiceOrThrow(fixedJSON) ==
  IF fixedJSON.ok /\ Truthy(fixedJSON.val)
  THEN Returned(ConcatArg(fixedJSON.val), 2)
  ELSE Thrown("parse", Error(ParseAndFixFailed), 3)

\* the catch of processChunk's inner try: fixJSON, then return or throw
FixOrThrow(fixedJSON) ==
  IF fixedJSON.ok /\ Truthy(fixedJSON.val)
  THEN Returned(ConcatArg(fixedJSON.val), 2)
  ELSE Thrown("parse", Error(ParseAndFixFailed), 2)

\* processChunk's inner try: JSON.parse of the extracted text
ParseOrFix(text, parsedConcerns) ==
  IF parsedConcerns.ok THEN Returned(ConcatArg(parsedConcerns.val), 1)
  ELSE FixOrThrow(fixJSON(text))

\* processChunk's extraction of the array from the response
ExtractOrThrow(jsonMatch) ==
  IF ~jsonMatch.found
  THEN Thrown("noarray", Error(ExtractFailed), 0)
  ELSE ParseOrFix(jsonMatch.text, JSONParse(jsonMatch.text))

\* processChunk after the completion has arrived
processChunk(text) == ExtractOrThrow(MatchArray(text))

\* the first index at or after p where w occurs in s, 0 if none
Occurrences(s, w, p) ==
  {k \in p..(Len(s) - Len(w) + 1) : SubSeq(s, k, k + Len(w) - 1) = w}

FirstOf(found) == IF found = {} THEN 0 ELSE SetMin(found)

Find(s, w, p) == FirstOf(Occurrences(s, w, p))

Fence == <<TICK, TICK, TICK>>

FenceClose(s, b, c) == IF c = 0 THEN NoMatch ELSE Match(SubSeq(s, b, c - 1))

FenceBody(s, b) == FenceClose(s, b, Find(s, Fence, b))

FenceOpen(s, a) == IF a = 0 THEN NoMatch ELSE FenceBody(s, SkipWs(s, a + 7))

\* chunkConcernsText.match of a fenced json block: group 1, the text between
\* the opening fence (and the whitespace after it) and the next fence
FenceMatch(s) == FenceOpen(s, Find(s, Fence \o <<"j", "s", "o", "n">>, 1))

\* the failure to parse, or a value that is no array, thrown out of the loop
ArrayOrThrow(chunkConcerns) ==
  IF ~chunkConcerns.ok THEN Thrown("parse", Error(ParseFailed), 1)
  ELSE IF chunkConcerns.val.t = "arr" THEN Returned(chunkConcerns.val.v, 1)
  ELSE Thrown("notarray", Error(ParseFailed), 1)

\* Array.isArray(chunkConcerns): concat, or nothing; the catch logs only
ArrayOrDrop(chunkConcerns) ==
  IF ~chunkConcerns.ok THEN Dropped("parse", 1)
  ELSE IF chunkConcerns.val.t = "arr" THEN Returned(chunkConcerns.val.v, 1)
  ELSE Dropped("notarray", 1)

FencedOrWhole(text, jsonMatch) == IF jsonMatch.found THEN jsonMatch.text ELSE text

\* the try block of the tokenizer revision
parseChunkConcerns(text) ==
  ArrayOrDrop(JSONParse(FencedOrWhole(text, FenceMatch(text))))

\* processChunk of the revision without fixJSON
ParseOrThrow(parsedConcerns) ==
  IF parsedConcerns.ok THEN Returned(ConcatArg(parsedConcerns.val), 1)
  ELSE Thrown("parse", Error(ParseFailed), 1)

ExtractOrThrowStrict(jsonMatch) ==
  IF ~jsonMatch.found THEN Thrown("noarray", Error(ExtractFailed), 0)
  ELSE ParseOrThrow(JSONParse(jsonMatch.text))

processChunkStrict(text) == ExtractOrThrowStrict(MatchArray(text))

(***************************************************************************)
(* parseConcernsFromResponse: the response as a numbered list of blocks    *)
(* with the labels Section:, Quote: and Concern:                           *)
(***************************************************************************)
UpperCase ==
  <<"A", "B", "C", "D", "E", "F", "G", "H", "I", "J", "K", "L", "M",
    "N", "O", "P", "Q", "R", "S", "T", "U", "V", "W", "X", "Y", "Z">>
LowerCase ==
  <<"a", "b", "c", "d", "e", "f", "g", "h", "i", "j", "k", "l", "m",
    "n", "o", "p", "q", "r", "s", "t", "u", "v", "w", "x", "y", "z">>

\* the i flag: letters are compared in lower case
Lower(c) ==
  IF \E k \in 1..Len(UpperCase) : UpperCase[k] = c
  THEN LowerCase[CHOOSE k \in 1..Len(UpperCase) : UpperCase[k] = c]
  ELSE c
LowerText(s) == [k \in 1..Len(s) |-> Lower(s[k])]

\* /^\d+\.\s+/gm at p: the index after the match, 0 if there is none
LineStart(s, p) == p = 1 \/ s[p - 1] = LF
MarkerAfter(s, q) ==
  IF q = 0 \/ q + 1 > Len(s) THEN 0
  ELSE IF s[q] # "." \/ s[q + 1] \notin JSONWhitespace THEN 0
  ELSE SkipWs(s, q + 1)
MarkerEnd(s, p) == IF ~LineStart(s, p) THEN 0 ELSE MarkerAfter(s, DigitsEnd(s, p))
Markers(s) == {p \in 1..Len(s) : MarkerEnd(s, p) # 0}

\* responseContent.split(...): the texts between the matches
NthMarker(M, k) == CHOOSE p \in M : Cardinality({q \in M : q < p}) = k - 1
PieceStart(s, M, j) == IF j = 0 THEN 1 ELSE MarkerEnd(s, NthMarker(M, j))
PieceEnd(s, M, j) == IF j = Cardinality(M) THEN Len(s) ELSE NthMarker(M, j + 1) - 1
SplitBlocks(s, M) ==
  [j \in 1..(Cardinality(M) + 1) |->
     SubSeq(s, PieceStart(s, M, j - 1), PieceEnd(s, M, j - 1))]
concernBlocks(s) == SplitBlocks(s, Markers(s))

SectionLabel == Section \o <<":">>
QuoteLabel == Quote \o <<":">>
ConcernLabel == Concern \o <<":">>

\* the index of the last character of the line that holds b
LineBreaks(s, b) == {k \in b..Len(s) : s[k] = LF}
LineEnd(s, b) == IF LineBreaks(s, b) = {} THEN Len(s) ELSE SetMin(LineBreaks(s, b)) - 1

\* the index before the next Concern: at or after b, the last index if none
BeforeLabel(s, c) == IF c = 0 THEN Len(s) ELSE c - 1
BeforeConcern(s, b) == BeforeLabel(s, Find(LowerText(s), ConcernLabel, b))

\* group 1 of /Section:\s*(.*)/i, of /Quote:\s*([\s\S]*?)(?=Concern:|$)/i
\* and of /Concern:\s*([\s\S]*)/i, each for a body that starts at b
SectionGroup(block, b) == SubSeq(block, b, LineEnd(block, b))
QuoteGroup(block, b) == SubSeq(block, b, BeforeConcern(block, b))
ConcernGroup(block, b) == SubSeq(block, b, Len(block))

\* concern.section, concern.quote, concern.concern: set when the label
\* matches at a, to the trimmed group
SectionField(block, a) ==
  IF a = 0 THEN <<>>
  ELSE Section :> JStr(Trim(SectionGroup(block, SkipWs(block, a + Len(SectionLabel)))))
QuoteField(block, a) ==
  IF a = 0 THEN <<>>
  ELSE Quote :> JStr(Trim(QuoteGroup(block, SkipWs(block, a + Len(QuoteLabel)))))
ConcernField(block, a) ==
  IF a = 0 THEN <<>>
  ELSE Concern :> JStr(Trim(ConcernGroup(block, SkipWs(block, a + Len(ConcernLabel)))))

LabelAt(block, label) == Find(LowerText(block), label, 1)

\* the concern object built from one trimmed block
BlockConcern(block) ==
  JObj(SectionField(block, LabelAt(block, SectionLabel))
         @@ QuoteField(block, LabelAt(block, QuoteLabel))
         @@ ConcernField(block, LabelAt(block, ConcernLabel)))

BlockConcerns(blocks) == [j \in 1..Len(blocks) |-> BlockConcern(Trim(blocks[j]))]

\* the concerns pushed: those with at least one key (an empty block has none)
parseConcernsFromResponse(responseText) ==
  SelectSeq(BlockConcerns(concernBlocks(responseText)),
            LAMBDA c : DOMAIN c.v # {})

\* the text a revision hands to its first JSON.parse for a response, if any
ParserInput(text) ==
  CASE variant \in {"repair", "strict"} -> MatchArray(text)
    [] variant = "tokenizer" -> Match(FencedOrWhole(text, FenceMatch(text)))
    [] OTHER -> NoMatch

\* the revisions that parse the completion, and what each makes of a text
Parsing == {"repair", "strict", "labelled", "tokenizer"}

ParsedOutcome(v, text) ==
  CASE v = "repair" -> processChunk(text)
    [] v = "strict" -> processChunkStrict(text)
    [] v = "labelled" -> Returned(parseConcernsFromResponse(text), 0)
    [] v = "tokenizer" -> parseChunkConcerns(text)

\* the outcomes for the completions of the model, as they arrive and trimmed,
\* worked out once for every run
RecoverTexts == Responses \cup {Trim(r) : r \in Responses}
OutcomeTable ==
  [v \in Parsing |-> [text \in RecoverTexts |-> ParsedOutcome(v, text)]]

\* what the loop body does with the trimmed completion text of chunk k
RecoverOutcome(text, k) ==
  CASE variant \in Parsing -> OutcomeTable[variant][text]
    [] variant \in {"estimate", "fixed"} -> Returned(<<JStr(text)>>, 0)
    [] variant = "tagged" ->
         Returned(<<[chunk |-> k + 1, concerns |-> JStr(text)]>>, 0)

\* the new entries put in front of the list (unshift, or the operands of
\* concat swapped)
AccumulateFront(list, added) == added \o list

\* the list assigned the new entries alone, the earlier ones lost
AccumulateReplace(list, added) == added

\* concernsList = concernsList.concat(concerns); concernsList.push(entry)
Accumulate(list, added) == list \o added

(***************************************************************************)
(* The request                                                             *)
(***************************************************************************)
Methods == {"POST", "OPTIONS", "GET"}

\* What a revision does when the key is missing: "warn", the module logs it
\* (or does nothing) and goes on; "respond", the handler answers 500;
\* "throw", the module throws while it loads
KeyChecks(v) ==
  CASE v \in Shortcut \cup {"tagged"} -> {"warn"}
    [] v = "estimate" -> {"warn", "respond"}
    [] v \in {"fixed", "tokenizer"} -> {"throw"}

\* status of the answer to a preflight request
OptionsStatus == IF variant \in {"fixed", "tokenizer"} THEN 204 ELSE 200

\* new OpenAI({ apiKey }) with the key missing: whether the client library
\* accepts that is not in the source, so both outcomes are taken
ClientOutcomes == IF apiKey THEN {TRUE} ELSE BOOLEAN

\* the budgets a revision may be configured with, by the number of chunks
InitChunks(n, budget) == Ceil(n, budget) <= MaxChunks

IdleFix ==
  /\ jsonString = <<>>
  /\ fixStep = "idle"
  /\ cleaned = NoMatch
  /\ cleanedAgain = NoMatch
  /\ direct = Fail
  /\ repaired = Fail

Init ==
  /\ variant \in Variants
  /\ termsContent \in RequestBodies
  /\ \E t \in 1..MaxTokens :
       contextWindow =
         CASE variant = "tokenizer" -> MaxOutputTokens + PromptReserve + t
           [] variant = "tagged" -> MaxOutputTokensGpt35 + t
           [] variant = "fixed" -> MaxOutputTokens + 1
           [] OTHER -> MaxOutputTokens + t
  /\ chunkSize \in IF variant = "fixed" THEN 1..MaxChunkSize ELSE {0}
  /\ tokenChars \in IF variant = "tokenizer" THEN 1..MaxTokenChars ELSE {1}
  /\ InitChunks(Len(Encode(termsContent.text)), ChunkBudget)
  /\ method \in Methods
  /\ apiKey \in BOOLEAN
  /\ keyCheck \in KeyChecks(variant)
  /\ pc = "handler"
  /\ termsText = <<>>
  /\ split = FALSE
  /\ tokens = <<>>
  /\ numChunks = 0
  /\ i = 0
  /\ concernsList = <<>>
  /\ responseContent = <<>>
  /\ inFlight = 0
  /\ segments = <<>>
  /\ calls = <<>>
  /\ batches = <<>>
  /\ failures = <<>>
  /\ error = NoError
  /\ status = 0
  /\ body = <<>>
  /\ IdleFix

\* the handler answers without calling summarizePolicy
Respond(code, message) ==
  /\ status' = code
  /\ body' = message
  /\ pc' = "done"
  /\ UNCHANGED <<termsText, error>>

\* the module threw while loading: the handler never runs and the platform
\* answers for the function
LoadFails ==
  /\ error' = Error(KeyNotSet)
  /\ status' = 500
  /\ body' = <<>>
  /\ pc' = "done"
  /\ UNCHANGED termsText

\* the test without its trim: !termsContent only
BlankNoTrim(content) == ~content.defined \/ content.text = <<>>

\* !termsContent || termsContent.trim() === ""
Blank(content) ==
  ~content.defined \/ content.text = <<>> \/ Trim(content.text) = <<>>

\* module initialisation and the handler up to its call of summarizePolicy
HandlerSteps(built) ==
  IF ~apiKey /\ (keyCheck = "throw" \/ ~built) THEN LoadFails
  ELSE IF method = "OPTIONS" THEN Respond(OptionsStatus, <<>>)
  ELSE IF ~apiKey /\ keyCheck = "respond"
       THEN Respond(500, [error |-> KeyNotSet])
  ELSE IF method # "POST" THEN Respond(405, [error |-> MethodNotAllowed])
  ELSE IF Blank(termsContent) THEN Respond(400, [error |-> NoContentProvided])
  ELSE /\ pc' = "summarize"
       /\ termsText' = termsContent.text
       /\ UNCHANGED <<status, body, error>>

\* handler: the request is validated and summarizePolicy is called
Handler ==
  /\ pc = "handler"
  /\ \E built \in ClientOutcomes : HandlerSteps(built)
  /\ UNCHANGED <<fixVars, envVars, variant, termsContent, contextWindow,
                 chunkSize, tokenChars, split, tokens, numChunks, i,
                 concernsList, responseContent, inFlight, segments, calls,
                 batches, failures>>

\* summarizePolicy up to its first call: the budget, the chunk count
SummarizeStart ==
  /\ pc = "summarize"
  /\ concernsList' = <<>>
  /\ i' = 0
  /\ IF variant \in Shortcut /\ Len(termsText) <= maxInputChars
     THEN /\ split' = FALSE
          /\ numChunks' = 0
          /\ tokens' = <<>>
          /\ pc' = "single"
     ELSE /\ split' = TRUE
          /\ tokens' = IF variant = "tokenizer" THEN Encode(termsText) ELSE <<>>
          /\ numChunks' = NumChunks(termsText)
          /\ pc' = "loop"
  /\ UNCHANGED <<fixVars, envVars, variant, termsContent, contextWindow, chunkSize, tokenChars,
                 termsText, responseContent, inFlight, segments, calls,
                 batches, failures, error, status, body>>

\* the unsplit path: processChunk(termsText, model, maxOutputTokens)
SendSingle ==
  /\ pc = "single"
  /\ segments' = Append(segments, [index |-> 0, start |-> 0,
                                   end |-> Len(termsText), text |-> termsText])
  /\ calls' = Append(calls, [segment |-> 0, text |-> termsText, chunkNumber |-> 0,
                             heading |-> PromptHeading(0),
                             response |-> <<>>])
  /\ inFlight' = inFlight + 1
  /\ pc' = "awaiting"
  /\ UNCHANGED <<fixVars, envVars, variant, termsContent, contextWindow, chunkSize, tokenChars,
                 termsText, split, tokens, numChunks, i, concernsList,
                 responseContent, batches, failures, error, status, body>>

\* the loop without its await: the call is started and the loop goes on
SendRequestNoAwait ==
  /\ pc = "loop"
  /\ i < numChunks
  /\ segments' = Append(segments, [index |-> i, start |-> ChunkStart(i),
                                   end |-> ChunkEnd(i), text |-> ChunkText(i)])
  /\ calls' = Append(calls, [segment |-> i, text |-> ChunkText(i),
                             chunkNumber |-> ChunkNumber(i),
                             heading |-> PromptHeading(ChunkNumber(i)),
                             response |-> <<>>])
  /\ inFlight' = inFlight + 1
  /\ i' = i + 1
  /\ UNCHANGED <<fixVars, envVars, variant, termsContent, contextWindow, chunkSize,
                 tokenChars, pc, termsText, split, tokens, numChunks,
                 concernsList, responseContent, batches, failures, error,
                 status, body>>

\* one turn of the loop up to its await: the chunk is sliced and sent (the
\* tokenizer revision skips a chunk whose messages exceed the context window)
SendRequest ==
  /\ pc = "loop"
  /\ i < numChunks
  /\ segments' = Append(segments, [index |-> i, start |-> ChunkStart(i),
                                   end |-> ChunkEnd(i), text |-> ChunkText(i)])
  /\ IF variant = "tokenizer" /\ MessageTokens(ChunkText(i)) > contextWindow
     THEN /\ i' = i + 1
          /\ UNCHANGED <<calls, inFlight, pc>>
     ELSE /\ calls' = Append(calls, [segment |-> i, text |-> ChunkText(i),
                                     chunkNumber |-> ChunkNumber(i),
                             heading |-> PromptHeading(ChunkNumber(i)),
                             response |-> <<>>])
          /\ inFlight' = inFlight + 1
          /\ pc' = "awaiting"
          /\ UNCHANGED i
  /\ UNCHANGED <<fixVars, envVars, variant, termsContent, contextWindow, chunkSize, tokenChars,
                 termsText, split, tokens, numChunks, concernsList,
                 responseContent, batches, failures, error, status, body>>

\* the completion taken as it arrived, without trim
ReceiveResponseNoTrim(r) ==
  /\ pc = "awaiting"
  /\ apiKey
  /\ inFlight' = inFlight - 1
  /\ calls' = [calls EXCEPT ![Len(calls)].response = r]
  /\ responseContent' = r
  /\ pc' = "recover"
  /\ UNCHANGED <<fixVars, envVars, variant, termsContent, contextWindow,
                 chunkSize, tokenChars, termsText, split, tokens, numChunks,
                 i, concernsList, segments, batches, failures, error, status,
                 body>>

\* the awaited completion arrives: content.trim()
ReceiveResponse(r) ==
  /\ pc = "awaiting"
  /\ apiKey
  /\ inFlight' = inFlight - 1
  /\ calls' = [calls EXCEPT ![Len(calls)].response = r]
  /\ responseContent' = Trim(r)
  /\ pc' = "recover"
  /\ UNCHANGED <<fixVars, envVars, variant, termsContent, contextWindow, chunkSize, tokenChars,
                 termsText, split, tokens, numChunks, i, concernsList,
                 segments, batches, failures, error, status, body>>

\* the record of a failed segment
Failure(k, kind, raw, handed, parses) ==
  [segment |-> k, kind |-> kind, raw |-> raw, handed |-> handed,
   parses |-> parses]

\* a failed call tried once more for the same segment before giving up
CallFailsRetry(err) ==
  /\ pc = "awaiting"
  /\ inFlight' = inFlight - 1
  /\ failures' = Append(failures, Failure(i, "call", <<>>, NoMatch, 0))
  /\ IF \E k \in 1..Len(failures) : failures[k].segment = i
     THEN /\ error' = WrapError(err)
          /\ status' = 500
          /\ body' = ErrorBody(WrapError(err))
          /\ pc' = "done"
     ELSE /\ pc' = IF split THEN "loop" ELSE "single"
          /\ UNCHANGED <<error, status, body>>
  /\ UNCHANGED <<fixVars, envVars, variant, termsContent, contextWindow,
                 chunkSize, tokenChars, termsText, split, tokens, numChunks,
                 i, concernsList, responseContent, segments, calls, batches>>

\* the awaited call rejects: the error passes the catch blocks up to the
\* handler, which answers 500
CallFails(err) ==
  /\ pc = "awaiting"
  /\ inFlight' = inFlight - 1
  /\ failures' = Append(failures, Failure(i, "call", <<>>, NoMatch, 0))
  /\ error' = WrapError(err)
  /\ status' = 500
  /\ body' = ErrorBody(WrapError(err))
  /\ pc' = "done"
  /\ UNCHANGED <<fixVars, envVars, variant, termsContent, contextWindow, chunkSize, tokenChars,
                 termsText, split, tokens, numChunks, i, concernsList,
                 responseContent, segments, calls, batches>>

\* the error of a segment caught inside the loop: the segment is noted as
\* failed and the run goes on with the next one
FinishSkipFailed(out) ==
  /\ concernsList' = Accumulate(concernsList, out.added)
  /\ batches' = IF out.kind = "ok"
                THEN Append(batches, [segment |-> i, concerns |-> out.added,
                                      raw |-> responseContent,
                                      handed |-> ParserInput(responseContent),
                                      parses |-> out.parses])
                ELSE batches
  /\ failures' = IF out.kind = "ok" THEN failures
                 ELSE Append(failures,
                             Failure(i, out.kind, responseContent,
                                     ParserInput(responseContent), out.parses))
  /\ i' = IF split THEN i + 1 ELSE i
  /\ pc' = IF split THEN "loop" ELSE "return"
  /\ UNCHANGED <<error, status, body>>

\* the turn that ends without the step of the loop index: the same segment
\* is sliced and sent again
FinishNoAdvance(out) ==
  IF out.thrown
  THEN /\ failures' = Append(failures,
                             Failure(i, out.kind, responseContent,
                                     ParserInput(responseContent), out.parses))
       /\ error' = WrapError(out.error)
       /\ status' = 500
       /\ body' = ErrorBody(WrapError(out.error))
       /\ pc' = "done"
       /\ UNCHANGED <<i, concernsList, batches>>
  ELSE /\ concernsList' = Accumulate(concernsList, out.added)
       /\ batches' = batches
       /\ failures' = failures
       /\ i' = i
       /\ pc' = IF split THEN "loop" ELSE "return"
       /\ UNCHANGED <<error, status, body>>

\* the rest of the turn with outcome out: the response is appended, or the
\* error raised passes the catch blocks up to the handler
Finish(out) ==
  IF out.thrown
  THEN /\ failures' = Append(failures, Failure(i, out.kind, responseContent,
                                            ParserInput(responseContent),
                                            out.parses))
       /\ error' = WrapError(out.error)
       /\ status' = 500
       /\ body' = ErrorBody(WrapError(out.error))
       /\ pc' = "done"
       /\ UNCHANGED <<i, concernsList, batches>>
  ELSE /\ concernsList' = Accumulate(concernsList, out.added)
       /\ batches' = IF out.kind = "ok"
                     THEN Append(batches, [segment |-> i, concerns |-> out.added,
                                           raw |-> responseContent,
                                           handed |-> ParserInput(responseContent),
                                           parses |-> out.parses])
                     ELSE batches
       /\ failures' = IF out.kind = "ok" THEN failures
                      ELSE Append(failures,
                                  Failure(i, out.kind, responseContent,
                                          ParserInput(responseContent),
                                          out.parses))
       /\ i' = IF split THEN i + 1 ELSE i
       /\ pc' = IF split THEN "loop" ELSE "return"
       /\ UNCHANGED <<error, status, body>>

\* the rest of the turn: the response is recovered and appended, or the
\* error it raises passes the catch blocks up to the handler
Recover ==
  /\ pc = "recover"
  /\ Finish(RecoverOutcome(responseContent, i))
  /\ UNCHANGED <<fixVars, envVars, variant, termsContent, contextWindow, chunkSize, tokenChars,
                 termsText, split, tokens, numChunks, responseContent,
                 inFlight, segments, calls>>

\* return concernsList; the handler answers 200 with it
Return ==
  /\ IF pc = "loop" THEN i >= numChunks ELSE pc = "return"
  /\ status' = 200
  /\ body' = [concerns |-> concernsList]
  /\ pc' = "done"
  /\ UNCHANGED <<fixVars, envVars, variant, termsContent, contextWindow, chunkSize, tokenChars,
                 termsText, split, tokens, numChunks, i, concernsList,
                 responseContent, inFlight, segments, calls, batches,
                 failures, error>>

Next ==
  \/ Handler
  \/ SummarizeStart
  \/ SendSingle
  \/ SendRequest
  \/ \E r \in Responses : ReceiveResponse(r)
  \/ \E err \in ApiErrors : CallFails(err)
  \/ Recover
  \/ Return

Spec == Init /\ [][Next]_vars

\* The run as the event loop carries it out: a step that can be taken is
\* taken, and a call that is awaited is answered or rejected in the end.
\* The completions are one of each kind of outcome: an array, prose without
\* an array, an array that does not parse, and a record outside an array.
LiveResponses == {RespOne, RespProse, RespBroken, RespObject}

NextLive ==
  \/ Handler
  \/ SummarizeStart
  \/ SendSingle
  \/ SendRequest
  \/ \E r \in LiveResponses : ReceiveResponse(r)
  \/ \E err \in ApiErrors : CallFails(err)
  \/ Recover
  \/ Return

SpecLive == Init /\ [][NextLive]_vars /\ WF_vars(NextLive)

(***************************************************************************)
(* The repair chain of fixJSON on its own: applied to a text, and applied  *)
(* again to what it gave.                                                  *)
(***************************************************************************)
MaxStrLen == 4        \* longest enumerated text
RepairAlphabet == {"[", "]", ",", "a", DQ, LDQUO, RDQUO, LSQUO, LF}
Texts == UNION {[1..n -> RepairAlphabet] : n \in 0..MaxStrLen}

IdlePipeline ==
  /\ variant = "repair"
  /\ termsContent = Undefined
  /\ contextWindow = MaxOutputTokens + 1
  /\ chunkSize = 0
  /\ tokenChars = 1
  /\ pc = "idle"
  /\ termsText = <<>>
  /\ split = FALSE
  /\ tokens = <<>>
  /\ numChunks = 0
  /\ i = 0
  /\ concernsList = <<>>
  /\ responseContent = <<>>
  /\ inFlight = 0
  /\ segments = <<>>
  /\ calls = <<>>
  /\ batches = <<>>
  /\ failures = <<>>
  /\ error = NoError
  /\ status = 0
  /\ body = <<>>
  /\ method = "POST"
  /\ apiKey = TRUE
  /\ keyCheck = "warn"

InitRepair ==
  /\ IdlePipeline
  /\ jsonString \in Texts \cup Responses
  /\ fixStep = "start"
  /\ cleaned = NoMatch
  /\ cleanedAgain = NoMatch
  /\ direct = Fail
  /\ repaired = Fail

\* the chain of fixJSON up to cleanedString
ApplyChain ==
  /\ fixStep = "start"
  /\ cleaned' = RepairChain(jsonString)
  /\ fixStep' = "once"
  /\ UNCHANGED <<pipelineVars, jsonString, cleanedAgain, direct, repaired>>

\* the chain on its own output
ApplyChainAgain ==
  /\ fixStep = "once"
  /\ cleaned.found
  /\ cleanedAgain' = RepairChain(cleaned.text)
  /\ fixStep' = "twice"
  /\ UNCHANGED <<pipelineVars, jsonString, cleaned, direct, repaired>>

\* the two parses: of the argument itself and of cleanedString
ParseBoth ==
  /\ fixStep = "once"
  /\ direct' = JSONParse(jsonString)
  /\ repaired' = ParseCleaned(cleaned)
  /\ fixStep' = "parsed"
  /\ UNCHANGED <<pipelineVars, jsonString, cleaned, cleanedAgain>>

NextRepair == ApplyChain \/ ApplyChainAgain \/ ParseBoth

SpecRepair == InitRepair /\ [][NextRepair]_vars

(***************************************************************************)
(* Properties                                                              *)
(***************************************************************************)
RECURSIVE Flatten(_)
Flatten(seqs) == IF seqs = <<>> THEN <<>> ELSE Head(seqs) \o Flatten(Tail(seqs))

SegmentTexts == [k \in 1..Len(segments) |-> segments[k].text]
BatchConcerns == [k \in 1..Len(batches) |-> batches[k].concerns]

\* the offset after the last character of the k-th chunk sliced
SegEnd(k) == segments[k].start + Len(segments[k].text)

\* the handler has answered 200 with the concerns of the document
Succeeded == method = "POST" /\ status = 200

\* the revisions whose budget is a number of characters
CharBased == variant # "tokenizer"

\* summarizePolicy has been entered and has fixed its chunk count
Chunked == pc \notin {"handler", "summarize", "idle"} /\ termsText # <<>>

\* C1: in the character-based revisions the chunks sliced so far are the
\* slices of the document at contiguous offsets, the first starting at 0 and
\* each starting where the one before ended; when the run returns, the last
\* chunk ends at the end of the document and the chunks, joined in index
\* order, are the document.
C1_ChunksPartitionDocument ==
  CharBased =>
    /\ \A k \in 1..Len(segments) :
         /\ segments[k].index = k - 1
         /\ segments[k].start = IF k = 1 THEN 0 ELSE SegEnd(k - 1)
         /\ SegEnd(k) <= Len(termsText)
         /\ segments[k].text = SubSeq(termsText, segments[k].start + 1, SegEnd(k))
    /\ Succeeded =>
         /\ segments # <<>>
         /\ SegEnd(Len(segments)) = Len(termsText)
         /\ Flatten(SegmentTexts) = termsText

C1_Witness ==
  /\ CharBased
  /\ Succeeded
  /\ Len(segments) = 3
  /\ Len(segments[3].text) < ChunkBudget

\* C2: in the character-based revisions, for a document longer than the
\* budget B, numChunks is the least n with n * B >= len(D); every chunk but
\* the last has exactly B characters, the last has between 1 and B, and a
\* run that returns has sliced numChunks chunks.
C2_ChunkCountAndLengths ==
  (CharBased /\ Chunked /\ Len(termsText) > ChunkBudget) =>
    /\ split
    /\ numChunks * ChunkBudget >= Len(termsText)
    /\ (numChunks - 1) * ChunkBudget < Len(termsText)
    /\ Len(segments) <= numChunks
    /\ \A k \in 1..Len(segments) :
         IF k < numChunks
         THEN Len(segments[k].text) = ChunkBudget
         ELSE Len(segments[k].text) \in 1..ChunkBudget
    /\ Succeeded => Len(segments) = numChunks

C2_Witness ==
  /\ variant \in {"repair", "fixed"}
  /\ Succeeded
  /\ numChunks = 3
  /\ Len(segments) = 3
  /\ Len(segments[3].text) \in 1..(ChunkBudget - 1)

\* C3: in the character-based revisions, for a document no longer than the
\* budget, at most one external call is ever made, its text is the whole
\* document, and a run that has answered (200 or 500) has made exactly one.
C3_ShortDocumentOneCall ==
  (CharBased /\ Chunked /\ Len(termsText) <= ChunkBudget) =>
    /\ Len(calls) <= 1
    /\ \A k \in 1..Len(calls) : calls[k].text = termsText
    /\ pc = "done" => Len(calls) = 1

C3_Witness ==
  /\ variant = "repair"
  /\ Len(termsText) = ChunkBudget
  /\ ~split
  /\ Succeeded
  /\ Len(calls) = 1

\* C4: in every revision, once summarizePolicy has fixed its plan for a
\* document (never empty here), a run that loops has numChunks >= 1, the loop
\* is entered at index 0 with a chunk to send, and a run that returns has
\* produced at least one segment.
C4_AtLeastOneSegment ==
  Chunked =>
    /\ termsText # <<>>
    /\ split => numChunks >= 1
    /\ (pc = "loop" /\ i = 0) => i < numChunks
    /\ Succeeded => Len(segments) >= 1

C4_Witness ==
  /\ variant = "tokenizer"
  /\ Len(termsText) = 1
  /\ Succeeded
  /\ numChunks = 1
  /\ Len(segments) = 1

\* segment seg has been received and dealt with: appended, or recorded failed
Processed(seg) ==
  \/ \E k \in 1..Len(batches) : batches[k].segment = seg
  \/ \E k \in 1..Len(failures) : failures[k].segment = seg

\* C5: at most one external call is in flight, and one is in flight exactly
\* while the run awaits it; calls are made in strictly ascending segment
\* order; while the call for a segment is awaited every earlier call has been
\* answered and dealt with, and the accumulator holds what those segments
\* gave, in their order.
C5_OneCallAtATime ==
  /\ inFlight \in {0, 1}
  /\ inFlight = 1 <=> pc = "awaiting"
  /\ \A k \in 1..Len(calls) : \A m \in 1..Len(calls) :
       k < m => calls[k].segment < calls[m].segment
  /\ \A k \in 1..Len(calls) :
       (k < Len(calls) \/ pc \notin {"awaiting", "recover"})
         => Processed(calls[k].segment)
  /\ pc = "awaiting" =>
       /\ calls[Len(calls)].segment = i
       /\ ~Processed(i)
       /\ concernsList = Flatten(BatchConcerns)

C5_Witness ==
  /\ pc = "awaiting"
  /\ i = 2
  /\ Len(calls) = 3
  /\ Len(batches) = 2
  /\ concernsList # <<>>

\* C6: the list a successful run returns is the concerns of its segments
\* joined in ascending segment order, each segment's concerns in the order of
\* its parsed response.
C6_OutputInSegmentOrder ==
  Succeeded =>
    /\ body.concerns = Flatten(BatchConcerns)
    /\ \A k \in 1..Len(batches) : \A m \in 1..Len(batches) :
         k < m => batches[k].segment < batches[m].segment

C6_Witness ==
  /\ variant = "repair"
  /\ Succeeded
  /\ Len(batches) = 2
  /\ Len(batches[1].concerns) = 2
  /\ Len(batches[2].concerns) = 1
  /\ Len(body.concerns) = 3

\* w occurs in s as a run of consecutive characters
Contains(s, w) ==
  \E p \in 1..(Len(s) - Len(w) + 1) : SubSeq(s, p, p + Len(w) - 1) = w

\* the error names segment seg, by its index or by its ordinal
IdentifiesSegment(err, seg) ==
  \/ Contains(err.message, Numeral(seg))
  \/ Contains(err.message, Numeral(seg + 1))

\* C7: when the response of a segment could not be parsed, and the repair of
\* fixJSON does not make it parse either, the run does not end in success:
\* it ends with an error, and the error names the segment.
C7_UnparseableSegmentReported ==
  \A k \in 1..Len(failures) :
    (failures[k].kind = "parse" /\ ~fixJSON(failures[k].raw).ok /\ pc = "done")
      => /\ status = 500
         /\ IdentifiesSegment(error, failures[k].segment)

\* C8: when the response of a segment holds no array (no opening bracket
\* with a closing bracket after it), processChunk raises an error and the
\* error carries the text of the response.
C8_NoArrayErrorCarriesRawText ==
  \A k \in 1..Len(failures) :
    failures[k].kind = "noarray"
      => /\ status = 500
         /\ failures[k].raw # <<>>
         /\ Contains(error.message, failures[k].raw)

\* the commas that only whitespace separates from a closing bracket or brace
TrailingCommas(s) ==
  {k \in Positions(s, ",") :
     SkipWs(s, k + 1) <= Len(s) /\ s[SkipWs(s, k + 1)] \in {"]", "}"}}

Marked(s, drop) == [k \in 1..Len(s) |-> IF k \in drop THEN "dropped" ELSE s[k]]

\* the repair the specification describes beside quote normalisation: the
\* trailing commas removed
RemoveTrailingCommas(s) ==
  SelectSeq(Marked(s, TrailingCommas(s)), LAMBDA c : c # "dropped")

HasSmartQuotes(s) == \E k \in 1..Len(s) : s[k] \in {LDQUO, RDQUO}

\* text fails the direct parse only for its smart quotes and a trailing comma
OnlyQuotesAndTrailingComma(text) ==
  /\ HasSmartQuotes(text)
  /\ TrailingCommas(text) # {}
  /\ ~JSONParse(text).ok
  /\ JSONParse(RemoveTrailingCommas(NormalizeQuotes(text))).ok

\* C9: in the revision with the repair step, a response that fails the
\* direct parse only for its smart quotes and a trailing comma does not fail
\* its segment: no parse failure is recorded for it.
C9_SmartQuotesTrailingCommaRecovered ==
  variant = "repair" =>
    \A k \in 1..Len(failures) :
      ~(/\ failures[k].kind = "parse"
        /\ MatchArray(failures[k].raw).found
        /\ OnlyQuotesAndTrailingComma(MatchArray(failures[k].raw).text))

\* C10: the chain of fixJSON (array extraction, quote normalisation, control
\* character stripping) applied to its own output gives that output again;
\* on a text without an array it gives no output to apply it to.
C10_RepairChainIdempotent ==
  /\ fixStep = "twice" => cleanedAgain = cleaned
  /\ (fixStep = "once" /\ ~cleaned.found) => ~MatchArray(jsonString).found

C10_Witness ==
  /\ fixStep = "twice"
  /\ cleaned.found
  /\ HasSmartQuotes(jsonString)
  /\ \E k \in 1..Len(jsonString) : jsonString[k] \in ControlChars
  /\ Len(cleaned.text) < Len(jsonString) - 1
  /\ cleanedAgain = cleaned

\* a parsed value is a record of the three string fields
IsConcernRecord(val) ==
  /\ val.t = "obj"
  /\ DOMAIN val.v = {Section, Quote, Concern}
  /\ \A key \in DOMAIN val.v : val.v[key].t = "str"

\* a parsed value is an array of such records
IsConcernArray(val) ==
  val.t = "arr" /\ \A k \in 1..Len(val.v) : IsConcernRecord(val.v[k])

FailedSegments == [k \in 1..Len(failures) |-> failures[k].segment]

\* policy (a): the run ended with an error and no call was started for a
\* segment after a failed one
Aborted ==
  /\ status = 500
  /\ error # NoError
  /\ \A k \in 1..Len(failures) : \A c \in 1..Len(calls) :
       calls[c].segment <= failures[k].segment

\* policy (b): the run went through every segment and returns what it has
\* together with the indexes of the failed segments
ContinuedWithReport ==
  /\ status = 200
  /\ Len(segments) = numChunks
  /\ DOMAIN body = {"concerns", "failed"}
  /\ body.concerns = concernsList
  /\ body.failed = FailedSegments

\* C12: a run in which a segment failed, by its call or by its output, has
\* either aborted with an error and started no later call, or gone on and
\* returned the partial result with the indexes of the failed segments.
C12_UniformFailurePolicy ==
  (pc = "done" /\ failures # <<>>) => (Aborted \/ ContinuedWithReport)

\* C13: when the call for a segment has failed, the run does not answer
\* with success: it answers 500, and the error that reaches the caller names
\* the segment whose call failed.
C13_CallFailureTagged ==
  \A k \in 1..Len(failures) :
    failures[k].kind = "call"
      => /\ status = 500
         /\ body = ErrorBody(error)
         /\ IdentifiesSegment(error, failures[k].segment)

\* the revisions that parse the response as JSON
ParsesJSON == variant \in {"repair", "strict", "tokenizer"}

\* every segment of the run so far was answered with the empty array
AllEmptyArrays ==
  /\ failures = <<>>
  /\ \A k \in 1..Len(batches) : batches[k].raw = RespEmptyArray

\* C14: in the revisions that parse the response as JSON, a response that is
\* the empty array is never recorded as a failure; its segment is appended
\* with no concerns and the loop goes on to the next segment; a run whose
\* segments were all answered so ends with 200 and an empty list, having
\* gone through every segment.
C14_EmptyArrayIsSuccess ==
  ParsesJSON =>
    /\ \A k \in 1..Len(failures) : failures[k].raw # RespEmptyArray
    /\ \A k \in 1..Len(batches) :
         batches[k].raw = RespEmptyArray =>
           /\ batches[k].concerns = <<>>
           /\ (split /\ pc = "loop" /\ k = Len(batches) /\ failures = <<>>)
                => i = batches[k].segment + 1
    /\ (pc = "done" /\ Chunked /\ AllEmptyArrays /\ calls # <<>>)
         => /\ Succeeded
            /\ body.concerns = <<>>
            /\ Len(batches) = Len(segments)
            /\ split => Len(segments) = numChunks

C14_Witness ==
  /\ variant = "repair"
  /\ Succeeded
  /\ numChunks = 3
  /\ Len(batches) = 3
  /\ AllEmptyArrays
  /\ body.concerns = <<>>

\* the revisions whose output is meant to be concern records
Structured == variant \in {"repair", "strict", "labelled", "tokenizer"}

\* C15: in the revisions with structured output, every entry of the list a
\* successful run returns is a record with exactly the fields section, quote
\* and concern, each a string.
C15_RecordsHaveThreeStrings ==
  (Structured /\ Succeeded) =>
    \A k \in 1..Len(body.concerns) : IsConcernRecord(body.concerns[k])

\* termsContent is missing, empty or holds whitespace only
BlankBody ==
  \/ ~termsContent.defined
  \/ \A k \in 1..Len(termsContent.text) : termsContent.text[k] \in TrimWhitespace

\* C16: for a request whose termsContent is missing, empty or whitespace
\* only, summarizePolicy is never entered: no segment is built and no call is
\* made; the handler, when the request is a POST and the key is set, answers
\* 400 with its no-content message.
C16_BlankRejected ==
  BlankBody =>
    /\ pc \in {"handler", "done"}
    /\ termsText = <<>>
    /\ segments = <<>>
    /\ calls = <<>>
    /\ inFlight = 0
    /\ (pc = "done" /\ method = "POST" /\ apiKey)
         => (status = 400 /\ body = [error |-> NoContentProvided])

C16_Witness ==
  /\ termsContent = Defined(<<LF, SP>>)
  /\ pc = "done"
  /\ status = 400
  /\ calls = <<>>

\* the calls made for segment seg
CallsFor(seg) == {c \in 1..Len(calls) : calls[c].segment = seg}

\* C17: no segment is called for twice, so the calls never outnumber the
\* segments; a failed call ends the run with no further call; a successful
\* run has made exactly one call for each of its segments.
C17_OneCallPerSegment ==
  /\ \A k \in 1..Len(segments) : Cardinality(CallsFor(segments[k].index)) <= 1
  /\ Len(calls) <= Len(segments)
  /\ split => Len(calls) <= numChunks
  /\ \A k \in 1..Len(failures) :
       failures[k].kind = "call"
         => /\ pc = "done"
            /\ k = Len(failures)
            /\ calls[Len(calls)].segment = failures[k].segment
  /\ Succeeded =>
       /\ Len(calls) = Len(segments)
       /\ \A k \in 1..Len(segments) : Cardinality(CallsFor(segments[k].index)) = 1

C17_Witness ==
  /\ pc = "done"
  /\ status = 500
  /\ Len(calls) = 2
  /\ Len(batches) = 1
  /\ Len(failures) = 1
  /\ failures[1].segment = 1
  /\ failures[1].kind = "call"

\* the text processChunk hands to JSON.parse for the response raw
Extracted(raw) == MatchArray(raw).text

C19_ChunkNumberInPrompt ==
  (variant \in Shortcut /\ Chunked) =>
    /\ split => numChunks >= 2
    /\ ~split => Len(calls) <= 1
    /\ \A c \in 1..Len(calls) :
         IF split
         THEN /\ calls[c].chunkNumber = calls[c].segment + 1
              /\ calls[c].heading = ChunkWord \o Numeral(calls[c].segment + 1)
         ELSE /\ calls[c].chunkNumber = 0
              /\ calls[c].heading = TermsOfUse

C19_Witness ==
  /\ variant = "repair"
  /\ split
  /\ Len(calls) = 3
  /\ calls[1].heading = ChunkWord \o <<"1">>
  /\ calls[3].heading = ChunkWord \o <<"3">>

\* C20: when the key is missing no segment is built and no call is
\* attempted, and a request that is not a preflight is answered with an
\* error.
C20_MissingKeyFatal ==
  ~apiKey =>
    /\ segments = <<>>
    /\ calls = <<>>
    /\ (pc = "done" /\ method # "OPTIONS") => status >= 400

\* C21: the accumulator only grows at its end: in every step its earlier
\* contents are an unchanged prefix of its new contents.
C21_AccumulatorOnlyAppends ==
  [][/\ Len(concernsList') >= Len(concernsList)
     /\ SubSeq(concernsList', 1, Len(concernsList)) = concernsList]_vars

\* three segments each added an entry, the last one after two were held
C21_Witness ==
  /\ Len(batches) = 3
  /\ \A b \in 1..3 : batches[b].concerns # <<>>
  /\ Len(concernsList) >= 3
  /\ pc = "done"

FirstOpen(raw) == SetMin(Positions(raw, "["))
LastClose(raw) == SetMax(Positions(raw, "]"))
HoldsArray(raw) ==
  \E a \in Positions(raw, "[") : \E k \in Positions(raw, "]") : a < k

OutermostHanded(rec) ==
  IF HoldsArray(rec.raw)
  THEN /\ rec.handed.found
       /\ rec.handed.text = SubSeq(rec.raw, FirstOpen(rec.raw), LastClose(rec.raw))
  ELSE /\ ~rec.handed.found
       /\ rec.kind = "noarray"
       /\ rec.parses = 0

\* C22: in the revisions with processChunk, a response with a "[" and a "]"
\* after it is parsed from its first "[" to its last "]", the text before and
\* after left out; a response without them is not parsed at all.
C22_OutermostBrackets ==
  variant \in {"repair", "strict"} =>
    /\ \A b \in 1..Len(batches) :
         /\ HoldsArray(batches[b].raw)
         /\ batches[b].handed =
              Match(SubSeq(batches[b].raw, FirstOpen(batches[b].raw),
                           LastClose(batches[b].raw)))
    /\ \A f \in 1..Len(failures) :
         failures[f].kind # "call" => OutermostHanded(failures[f])

\* a fenced array was recovered from between its fences, and the sentence
\* with two arrays was handed over from the first bracket to the last
C22_Witness ==
  /\ variant = "repair"
  /\ Len(batches) = 1
  /\ batches[1].raw = RespFenced
  /\ batches[1].handed.text = SubSeq(RespFenced, 9, Len(RespFenced) - 4)
  /\ Len(failures) = 1
  /\ failures[1].raw = RespTwoArrays
  /\ failures[1].handed.text = <<"[", "1", "]", SP, "o", "r", SP, "[", "2", "]">>

RawText == {"estimate", "fixed"}

\* C23: a successful run of a raw-text revision answers with one entry for
\* each segment, entry k the trimmed completion of segment k - 1; the tagged
\* revision answers with one entry for each segment, entry k tagged k and
\* holding the trimmed completion, so the tags are 1 to n in ascending order.
C23_OneEntryPerSegmentInOrder ==
  (Succeeded /\ pc = "done" /\ variant \in RawText \cup {"tagged"}) =>
    /\ Len(body.concerns) = numChunks
    /\ Len(calls) = numChunks
    /\ \A k \in 1..numChunks :
         /\ calls[k].segment = k - 1
         /\ IF variant = "tagged"
            THEN body.concerns[k] =
                   [chunk |-> k, concerns |-> JStr(Trim(calls[k].response))]
            ELSE body.concerns[k] = JStr(Trim(calls[k].response))

\* three segments, the completions different and one of them with white
\* space at its end
C23_Witness ==
  /\ Succeeded
  /\ pc = "done"
  /\ variant = "tagged"
  /\ numChunks = 3
  /\ calls[1].response = RespTwo
  /\ calls[2].response = RespProse
  /\ calls[3].response = RespOne
  /\ body.concerns[3].chunk = 3

C23_WitnessRaw ==
  /\ Succeeded
  /\ pc = "done"
  /\ variant = "estimate"
  /\ numChunks = 3
  /\ calls[1].response = RespTwo
  /\ body.concerns[1] = JStr(SubSeq(RespTwo, 1, Len(RespTwo) - 1))
  /\ body.concerns[2] = JStr(RespProse)

\* the revisions that count chunks from the estimated tokens of the document
Estimating == {"estimate", "tagged"}

\* the budget of the character-based revision for the same limits
CharBudget == CharsPerToken * maxInputTokens

\* C24: for every document, a revision that counts its chunks from the
\* estimated tokens has the chunk count of the character-based revision with
\* the budget B of 4 characters for each input token, ceil of len over B, and
\* slices the same chunks, chunk k from k * B to the smaller of k * B + B and
\* the length; no chunk is empty and a run that returns has covered the
\* document to its end.
C24_EstimateMatchesCharBased ==
  (variant \in Estimating /\ Chunked) =>
    /\ numChunks = Ceil(Len(termsText), CharBudget)
    /\ Len(segments) <= numChunks
    /\ \A k \in 1..Len(segments) :
         /\ segments[k].start = (k - 1) * CharBudget
         /\ segments[k].text =
              SubSeq(termsText, (k - 1) * CharBudget + 1,
                     Min(k * CharBudget, Len(termsText)))
         /\ segments[k].text # <<>>
         /\ \E c \in 1..Len(calls) :
              calls[c].segment = k - 1 /\ calls[c].text = segments[k].text
    /\ Succeeded =>
         /\ Len(segments) = numChunks
         /\ SegEnd(numChunks) = Len(termsText)

\* a document of two full budgets and one more character: three chunks, the
\* last of one character, where the estimate of tokens rounds up
C24_Witness ==
  /\ variant = "estimate"
  /\ Succeeded
  /\ Len(termsText) = 2 * CharBudget + 1
  /\ numChunks = 3
  /\ Len(segments) = 3
  /\ Len(segments[3].text) = 1
  /\ segments[3].end > Len(termsText)

\* the revisions in which every failure of a segment ends the run
AbortOnFailure == Variants \ {"tokenizer"}

\* C25: in the revisions that abort, once a segment has failed the run is
\* over: it is the only failure, the answer has status 500 and a body with an
\* error message and no concerns, whatever the earlier segments gave, and no
\* call has been made for a later segment.
C25_FailureDiscardsAndStops ==
  (variant \in AbortOnFailure /\ failures # <<>>) =>
    /\ Len(failures) = 1
    /\ pc = "done"
    /\ status = 500
    /\ DOMAIN body = {"error"}
    /\ body.error # <<>>
    /\ \A c \in 1..Len(calls) : calls[c].segment <= failures[1].segment
    /\ \A b \in 1..Len(batches) : batches[b].segment < failures[1].segment
    /\ Len(segments) = failures[1].segment + 1

\* the second of three segments fails to parse after the first gave concerns
C25_Witness ==
  /\ variant = "repair"
  /\ numChunks = 3
  /\ Len(failures) = 1
  /\ failures[1].segment = 1
  /\ failures[1].kind = "parse"
  /\ Len(batches) = 1
  /\ concernsList # <<>>
  /\ status = 500
  /\ Len(calls) = 2

\* no call of the run has been rejected
NoCallRejected == \A f \in 1..Len(failures) : failures[f].kind # "call"

\* C26: in the tokenizer revision a response that does not parse, or parses
\* to a value that is no array, adds nothing to the list and does not end the
\* run.  Unless a call is rejected, the answer is never 500, the list holds
\* exactly what the other segments gave, every segment is sent, and the run
\* ends with status 200 and a body of the concerns alone, with nothing that
\* names the failed segments.
C26_TokenizerSkipsUnparsed ==
  (variant = "tokenizer" /\ Chunked /\ NoCallRejected) =>
    /\ status # 500
    /\ error = NoError
    /\ concernsList = Flatten(BatchConcerns)
    /\ \A f \in 1..Len(failures) :
         /\ failures[f].kind \in {"parse", "notarray"}
         /\ \A b \in 1..Len(batches) : batches[b].segment # failures[f].segment
         /\ \A k \in (failures[f].segment + 1)..(i - 1) :
              \E c \in 1..Len(calls) : calls[c].segment = k
    /\ pc = "done" =>
         /\ status = 200
         /\ body = [concerns |-> Flatten(BatchConcerns)]
         /\ Len(calls) = numChunks
         /\ Len(batches) + Len(failures) = numChunks

\* of three segments the first does not parse, the second parses to a record
\* and not an array, and the third gives one concern, which is the answer
C26_Witness ==
  /\ variant = "tokenizer"
  /\ numChunks = 3
  /\ pc = "done"
  /\ status = 200
  /\ Len(failures) = 2
  /\ failures[1].segment = 0
  /\ failures[1].kind = "parse"
  /\ failures[2].segment = 1
  /\ failures[2].kind = "notarray"
  /\ Len(calls) = 3
  /\ Len(batches) = 1
  /\ batches[1].segment = 2
  /\ Len(body.concerns) = 1

\* C27: with every awaited call answered or rejected in the end, a run that
\* has entered summarizePolicy ends, answered with the list or with the
\* error; it makes no more calls than it has chunks, one for a document that
\* is not split; the loop index never goes down and the calls are for
\* strictly ascending segments, so no segment is sent twice.
C27_RunTerminates ==
  /\ (pc = "summarize") ~> (pc = "done" /\ status \in {200, 500})
  /\ [](Len(calls) <= IF split THEN numChunks ELSE 1)
  /\ [](\A k \in 1..Len(calls) : \A m \in 1..Len(calls) :
          k < m => calls[k].segment < calls[m].segment)
  /\ [][i' >= i]_vars

\* a run of three chunks has ended with the list after three calls
C27_Witness ==
  /\ variant = "repair"
  /\ pc = "done"
  /\ status = 200
  /\ numChunks = 3
  /\ i = 3
  /\ Len(calls) = 3
  /\ Len(batches) = 3

====
